---------------------------- MODULE Spec2Model ----------------------------
(***************************************************************************)
(* The stock forecasting pipeline of src/stock_analysis/stock.py           *)
(* (class StockPredictor): get_stock_data, prepare_features, train_model,  *)
(* create_feature_from_prediction, predict_future and analyze_stock.       *)
(*                                                                         *)
(* Numbers.  A float is modelled by an exact value, a 3-tuple              *)
(*     <<"q", n, d>>      the rational n/d (d > 0, lowest terms)           *)
(*     <<"nan", 0, 0>>    NaN                                              *)
(*     <<"inf", s, 0>>    +infinity (s = 1) or -infinity (s = -1)          *)
(* or by a term that names an irrational or unevaluated quantity:          *)
(*     <<"lin", an, ad, bn, bd, vn, vd>>   a + b * sqrt(v), v > 0 not a    *)
(*                                         square, b # 0                   *)
(*     <<"MACD", j, h>>, <<"MACD_Signal", j, h>>, <<"MACD_Histogram", j, h>> *)
(*         the exponentially weighted quantity at position j of a Close    *)
(*         column whose first j entries have the digest h.                 *)
(* Rounding of binary floating point is not modelled.                      *)
(***************************************************************************)
EXTENDS Integers, Sequences, FiniteSets, TLC

(***************************************************************************)
(* Exact arithmetic with the IEEE special values.                          *)
(***************************************************************************)
Abs(x) == IF x < 0 THEN -x ELSE x

RECURSIVE GCD(_, _)
GCD(a, b) == IF b = 0 THEN a ELSE GCD(b, a % b)

Q(n, d) ==
    LET g == GCD(Abs(n), Abs(d))
        s == IF d < 0 THEN -1 ELSE 1
    IN  <<"q", (s * n) \div g, (s * d) \div g>>

NaN == <<"nan", 0, 0>>
Inf(s) == <<"inf", s, 0>>
Zero == <<"q", 0, 1>>
One == <<"q", 1, 1>>
Num(n) == <<"q", n, 1>>

IsQ(a) == a[1] = "q"
IsNaN(a) == a[1] = "nan"
IsInf(a) == a[1] = "inf"
IsLin(a) == a[1] = "lin"
Sign(a) == IF a[2] > 0 THEN 1 ELSE IF a[2] < 0 THEN -1 ELSE 0

\* Only({e(x) : x \in {v}}) is e(v), with v evaluated once.
Only(S) == CHOOSE r \in S : TRUE

\* floor of the square root of a natural number, by bisection
RECURSIVE ISqrtIn(_, _, _)
ISqrtIn(n, lo, hi) ==
    IF lo >= hi THEN lo
    ELSE IF ((lo + hi + 1) \div 2) * ((lo + hi + 1) \div 2) <= n
         THEN ISqrtIn(n, (lo + hi + 1) \div 2, hi)
         ELSE ISqrtIn(n, lo, ((lo + hi + 1) \div 2) - 1)
ISqrt(n) == ISqrtIn(n, 0, IF n < 46340 THEN n ELSE 46340)

\* a + b * sqrt(v) for rationals a, b, v with v > 0 not a square
Lin(a, b, v) ==
    IF b[2] = 0 THEN a ELSE <<"lin", a[2], a[3], b[2], b[3], v[2], v[3]>>

\* the square root of a rational v >= 0 (NaN for NaN)
Sqrt(v) ==
    IF v[1] # "q" THEN <<"nan", 0, 0>>
    ELSE Only({IF r[1] * r[1] = v[2] /\ r[2] * r[2] = v[3]
               THEN <<"q", r[1], r[2]>>
               ELSE <<"lin", 0, 1, 1, 1, v[2], v[3]>> :
               r \in {<<ISqrt(v[2]), ISqrt(v[3])>>}})
LinA(t) == <<"q", t[2], t[3]>>
LinB(t) == <<"q", t[4], t[5]>>
LinV(t) == <<"q", t[6], t[7]>>

QAdd(a, b) == Q(a[2] * b[3] + b[2] * a[3], a[3] * b[3])
QNeg(a) == <<"q", -a[2], a[3]>>
QMul(a, b) == Q(a[2] * b[2], a[3] * b[3])
QDiv(a, b) == Q(a[2] * b[3], a[3] * b[2])
QLt(a, b) == a[2] * b[3] < b[2] * a[3]

Neg(a) ==
    CASE IsQ(a) -> QNeg(a)
      [] IsInf(a) -> Inf(-a[2])
      [] IsLin(a) -> Lin(QNeg(LinA(a)), QNeg(LinB(a)), LinV(a))
      [] OTHER -> NaN

Add(a, b) ==
    CASE IsNaN(a) \/ IsNaN(b) -> NaN
      [] IsInf(a) /\ IsInf(b) -> IF a[2] = b[2] THEN a ELSE NaN
      [] IsInf(a) -> a
      [] IsInf(b) -> b
      [] IsQ(a) /\ IsQ(b) -> QAdd(a, b)
      [] IsLin(a) /\ IsQ(b) -> Lin(QAdd(LinA(a), b), LinB(a), LinV(a))
      [] IsQ(a) /\ IsLin(b) -> Lin(QAdd(a, LinA(b)), LinB(b), LinV(b))
      [] IsLin(a) /\ IsLin(b) /\ LinV(a) = LinV(b) ->
            Lin(QAdd(LinA(a), LinA(b)), QAdd(LinB(a), LinB(b)), LinV(a))
      [] OTHER -> NaN

Sub(a, b) == Add(a, Neg(b))

Mul(a, b) ==
    CASE IsNaN(a) \/ IsNaN(b) -> NaN
      [] IsInf(a) /\ IsInf(b) -> Inf(a[2] * b[2])
      [] IsInf(a) /\ IsQ(b) -> IF b[2] = 0 THEN NaN ELSE Inf(a[2] * Sign(b))
      [] IsQ(a) /\ IsInf(b) -> IF a[2] = 0 THEN NaN ELSE Inf(b[2] * Sign(a))
      [] IsQ(a) /\ IsQ(b) -> QMul(a, b)
      [] IsLin(a) /\ IsQ(b) -> Lin(QMul(LinA(a), b), QMul(LinB(a), b), LinV(a))
      [] IsQ(a) /\ IsLin(b) -> Lin(QMul(a, LinA(b)), QMul(a, LinB(b)), LinV(b))
      [] OTHER -> NaN

Div(a, b) ==
    CASE IsNaN(a) \/ IsNaN(b) -> NaN
      [] IsInf(a) /\ IsInf(b) -> NaN
      [] IsInf(a) /\ IsQ(b) -> Inf(a[2] * (IF b[2] < 0 THEN -1 ELSE 1))
      [] IsQ(a) /\ IsInf(b) -> Zero
      [] IsQ(a) /\ IsQ(b) ->
            IF b[2] # 0 THEN QDiv(a, b)
            ELSE IF a[2] = 0 THEN NaN ELSE Inf(Sign(a))
      [] IsLin(a) /\ IsQ(b) /\ b[2] # 0 ->
            Lin(QDiv(LinA(a), b), QDiv(LinB(a), b), LinV(a))
      [] OTHER -> NaN

\* a < b on the reals (FALSE as soon as one side is NaN, as in IEEE)
LinNeg(t) ==  \* a + b * sqrt(v) < 0
    LET a == LinA(t)
        b == LinB(t)
        v == LinV(t)
        a2 == QMul(a, a)
        b2v == QMul(QMul(b, b), v)
    IN  IF b[2] > 0
        THEN a[2] < 0 /\ QLt(b2v, a2)
        ELSE a[2] <= 0 \/ QLt(a2, b2v)

\* b * b * v with the sign of b: ordered as b * sqrt(v) is
SignedSquare(b, v) ==
    IF b[2] < 0 THEN QNeg(QMul(QMul(b, b), v)) ELSE QMul(QMul(b, b), v)

\* (b1 * sqrt(v1) + b2 * sqrt(v2))^2 - a^2
SquareGap(a, b1, v1, b2, v2) ==
    Add(QAdd(QAdd(QMul(QMul(b1, b1), v1), QMul(QMul(b2, b2), v2)),
             QNeg(QMul(a, a))),
        Mul(QMul(Num(2), QMul(b1, b2)), Sqrt(QMul(v1, v2))))

\* a + b1 * sqrt(v1) + b2 * sqrt(v2) < 0, for rationals a, b1, v1, b2, v2
TwoRootsNeg(a, b1, v1, b2, v2) ==
    LET s1 == SignedSquare(b1, v1)
        s2 == SignedSquare(QNeg(b2), v2)
        gap == SquareGap(a, b1, v1, b2, v2)
    IN  IF s1 = s2 THEN a[2] < 0
        ELSE IF a[2] = 0 THEN QLt(s1, s2)
        ELSE IF (a[2] < 0) = QLt(s1, s2) THEN a[2] < 0
        ELSE IF a[2] < 0
             THEN (IF IsQ(gap) THEN gap[2] < 0 ELSE LinNeg(gap))
             ELSE (IF IsQ(gap) THEN gap[2] > 0 ELSE ~LinNeg(gap))

Lt(a, b) ==
    CASE IsNaN(a) \/ IsNaN(b) -> FALSE
      [] IsInf(a) /\ IsInf(b) -> a[2] < b[2]
      [] IsInf(a) -> a[2] < 0
      [] IsInf(b) -> b[2] > 0
      [] IsQ(a) /\ IsQ(b) -> QLt(a, b)
      [] IsLin(a) /\ IsLin(b) /\ LinV(a) # LinV(b) ->
            TwoRootsNeg(QAdd(LinA(a), QNeg(LinA(b))),
                        LinB(a), LinV(a), QNeg(LinB(b)), LinV(b))
      [] OTHER -> LET dd == Sub(a, b)
                  IN  IF IsQ(dd) THEN dd[2] < 0 ELSE IsLin(dd) /\ LinNeg(dd)

Gt(a, b) == Lt(b, a)
Le(a, b) == ~IsNaN(a) /\ ~IsNaN(b) /\ ~Lt(b, a)


(***************************************************************************)
(* Sequence helpers.                                                       *)
(***************************************************************************)
\* Prefix sums: PrefixSums(s)[k] is the sum of the first k - 1 entries of s.
RECURSIVE PrefixSumsFrom(_, _, _)
PrefixSumsFrom(s, k, acc) ==
    IF k > Len(s) THEN <<acc>>
    ELSE <<acc>> \o PrefixSumsFrom(s, k + 1, Add(acc, s[k]))
PrefixSums(s) == PrefixSumsFrom(s, 1, Zero)

RECURSIVE SumSeq(_)
SumSeq(s) == IF s = <<>> THEN Zero ELSE Add(Head(s), SumSeq(Tail(s)))
Mean(s) == Div(SumSeq(s), Num(Len(s)))

\* the rows of s picked by the boolean mask (numpy boolean indexing)
RECURSIVE MaskSelect(_, _)
MaskSelect(s, mask) ==
    IF s = <<>> THEN <<>>
    ELSE (IF Head(mask) THEN <<Head(s)>> ELSE <<>>) \o MaskSelect(Tail(s), Tail(mask))

(***************************************************************************)
(* The data provider (yfinance) is outside the program: it answers with a  *)
(* price history of some length and shape, or fails.  Prices are whole     *)
(* numbers of the minor currency unit; the index holds day numbers.        *)
(***************************************************************************)
MaxBars == 63

ProviderClose(shape, k) ==
    CASE shape = "flat" -> 100
      [] shape = "rising" -> 100 + k
      [] OTHER -> 100 + 20 * (k % 2)

ProviderHistory(shape, L) ==
    [is_none |-> FALSE,
     index |-> [k \in 1..L |-> k],
     col |-> [c \in {"Open", "High", "Low", "Close", "Volume"} |->
                [k \in 1..L |->
                    CASE c = "Open" -> Num(ProviderClose(shape, k - 1))
                      [] c = "High" -> Num(ProviderClose(shape, k - 1) + 1)
                      [] c = "Low" -> Num(ProviderClose(shape, k - 1) - 1)
                      [] c = "Close" -> Num(ProviderClose(shape, k - 1))
                      [] OTHER -> Num(1000)]]]

NoData == [is_none |-> TRUE, index |-> <<>>, col |-> <<>>]

NumBars(d) == Len(d.index)
HasColumn(d, c) == c \in DOMAIN d.col

(***************************************************************************)
(* pandas operations used by prepare_features, on a column (a sequence of  *)
(* values indexed 1..L; pandas position j is sequence position j + 1).     *)
(***************************************************************************)
\* a sequence given by a rule, as the array of its values
Array(s) == s \o <<>>

\* a rolling mean whose window reaches one bar ahead where there is one
RollingMeanAhead(s, w) ==
    Only({Array([j \in 1..Len(s) |->
                IF j < w THEN NaN
                ELSE IF j = Len(s) THEN Div(Sub(cs[j + 1], cs[j - w + 1]), Num(w))
                ELSE Div(Sub(cs[j + 2], cs[j - w + 2]), Num(w))]) :
          cs \in {PrefixSums(s)}})

\* Series.rolling(window=w).mean() of a column without NaN
RollingMean(s, w) ==
    Only({Array([j \in 1..Len(s) |->
                IF j < w THEN NaN ELSE Div(Sub(cs[j + 1], cs[j - w + 1]), Num(w))]) :
          cs \in {PrefixSums(s)}})

\* the sample variance (ddof = 1) of w values with sum sm and sum of squares sq
SampleVariance(sm, sq, w) == Div(Sub(sq, Div(Mul(sm, sm), Num(w))), Num(w - 1))

\* Series.rolling(window=w).std()
RollingStd(s, w) ==
    Only({Array([j \in 1..Len(s) |->
                IF j < w THEN NaN
                ELSE Sqrt(SampleVariance(Sub(cs[j + 1], cs[j - w + 1]),
                                         Sub(cq[j + 1], cq[j - w + 1]), w))]) :
          cs \in {PrefixSums(s)},
          cq \in {PrefixSums(Array([j \in 1..Len(s) |-> Mul(s[j], s[j])]))}})

\* Series.diff()
Diff(s) == Array([j \in 1..Len(s) |-> IF j = 1 THEN NaN ELSE Sub(s[j], s[j - 1])])

\* Series.pct_change()
PctChange(s) ==
    Array([j \in 1..Len(s) |->
        IF j = 1 THEN NaN ELSE Div(Sub(s[j], s[j - 1]), s[j - 1])])

\* Series.ewm(span=...).mean() chains (lines 70-74) are not evaluated: the value
\* at position j is named by its column, j and a digest of the input prefix
\* 1..j, the part of the input it is computed from.
Digest(acc, v) == ((((acc * 31) + (v[2] % 1009)) * 31) + v[3]) % 1000003

RECURSIVE PrefixDigests(_, _, _)
PrefixDigests(s, k, acc) ==
    IF k > Len(s) THEN <<>>
    ELSE <<Digest(acc, s[k])>> \o PrefixDigests(s, k + 1, Digest(acc, s[k]))

EwmTerm(tag, s) ==
    Only({Array([j \in 1..Len(s) |-> <<tag, j, dg[j]>>]) : dg \in {PrefixDigests(s, 1, 7)}})

\* line 67, from the rolling means of the gains and of the losses
RSIFrom(gain, loss) ==
    Array([j \in 1..Len(gain) |->
        Sub(Num(100), Div(Num(100), Add(One, Div(gain[j], loss[j]))))])

\* lines 63-67
RSIColumn(close) ==
    Only({RSIFrom(
            RollingMean(Array([j \in 1..Len(close) |->
                IF Gt(delta[j], Zero) THEN delta[j] ELSE Zero]), 14),
            RollingMean(Array([j \in 1..Len(close) |->
                Neg(IF Lt(delta[j], Zero) THEN delta[j] ELSE Zero)]), 14)) :
          delta \in {Diff(close)}})

\* lines 77-81
BollingerColumns(close) ==
    Only({[BB_Width |-> Array([j \in 1..Len(close) |->
                Div(Sub(bb.BB_Upper[j], bb.BB_Lower[j]), bb.BB_Middle[j])])] @@ bb :
          bb \in {Only({
              [BB_Middle |-> bb_middle,
               BB_Upper |-> Array([j \in 1..Len(close) |->
                                Add(bb_middle[j], Mul(bb_std[j], Num(2)))]),
               BB_Lower |-> Array([j \in 1..Len(close) |->
                                Sub(bb_middle[j], Mul(bb_std[j], Num(2)))])] :
              bb_middle \in {RollingMean(close, 20)},
              bb_std \in {RollingStd(close, 20)}})}})

\* lines 57-86: the derived columns, added to (or overwritten in) the frame
WithIndicators(d) ==
    Only({[d EXCEPT !.col =
            [MA_5 |-> RollingMean(close, 5),
             MA_10 |-> RollingMean(close, 10),
             MA_20 |-> RollingMean(close, 20),
             MA_30 |-> RollingMean(close, 30),
             RSI |-> RSIColumn(close),
             MACD |-> EwmTerm("MACD", close),
             MACD_Signal |-> EwmTerm("MACD_Signal", close),
             MACD_Histogram |-> EwmTerm("MACD_Histogram", close),
             Price_Change |-> PctChange(close),
             Volume_Change |-> PctChange(volume),
             Volatility |-> RollingStd(close, 20)]
            @@ BollingerColumns(close) @@ d.col] :
          close \in {d.col["Close"]}, volume \in {d.col["Volume"]}})

(***************************************************************************)
(* prepare_features, lines 88-125: windows, targets and the NaN filter.    *)
(***************************************************************************)
features_per_day == 19

\* lines 95-115: the per-day fields, in the order they are appended
FeatureColumns ==
    <<"Open", "High", "Low", "Close", "Volume",
      "MA_5", "MA_10", "MA_20", "MA_30",
      "RSI", "MACD", "MACD_Signal", "MACD_Histogram",
      "BB_Upper", "BB_Lower", "BB_Width",
      "Price_Change", "Volume_Change", "Volatility">>

\* lines 95-115: the fields of pandas position j - 1, in that order
DayFields(d, j) ==
    Array([c \in 1..Len(FeatureColumns) |-> d.col[FeatureColumns[c]][j]])

RECURSIVE ConcatRange(_, _, _)
ConcatRange(rows, from, to) ==
    IF from > to THEN <<>> ELSE rows[from] \o ConcatRange(rows, from + 1, to)

\* range(lookback_days, len(self.data)-2): the last candidate is left out
CandidateIndicesShort(d, lookback) ==
    LET L == NumBars(d)
    IN  Array([k \in 1..(IF L - 2 - lookback > 0 THEN L - 2 - lookback ELSE 0) |->
            lookback + k - 1])

\* line 92: range(lookback_days, len(self.data)-1)
CandidateIndices(d, lookback) ==
    LET L == NumBars(d)
    IN  Array([k \in 1..(IF L - 1 - lookback > 0 THEN L - 1 - lookback ELSE 0) |->
            lookback + k - 1])

\* lines 93-116: candidate i takes the days at pandas positions i-lookback .. i-1
CandidateFeatures(d, lookback) ==
    Only({Array([k \in 1..Len(idx) |->
                ConcatRange(rows, idx[k] - lookback + 1, idx[k])]) :
          idx \in {CandidateIndices(d, lookback)},
          rows \in {Array([j \in 1..NumBars(d) |-> DayFields(d, j)])}})

\* line 117: Close.iloc[i+1]
CandidateTargets(d, lookback) ==
    Only({Array([k \in 1..Len(idx) |-> d.col["Close"][idx[k] + 2]]) :
          idx \in {CandidateIndices(d, lookback)}})

\* a filter that looks at the targets only
ValidTargetsOnly(feats, targs) ==
    Array([k \in 1..Len(feats) |-> ~IsNaN(targs[k])])

\* line 123
ValidIndices(feats, targs) ==
    Array([k \in 1..Len(feats) |->
        (~\E p \in 1..Len(feats[k]) : IsNaN(feats[k][p])) /\ ~IsNaN(targs[k])])


(***************************************************************************)
(* scikit-learn, as far as the program uses it.                            *)
(***************************************************************************)
\* trees of the forest in the model (n_estimators in the program, line 141)
NumTrees == 2

\* train_test_split(test_size=0.2, random_state=42), lines 136-138: the test
\* part holds ceil(0.2 * n) rows.  The seeded shuffle is a fixed permutation
\* of the rows; here the reversal.
NumTest(n) == (n + 4) \div 5
Shuffle42(n) == Array([k \in 1..n |-> n + 1 - k])
TestRows(n) == SubSeq(Shuffle42(n), 1, NumTest(n))
TrainRows(n) == SubSeq(Shuffle42(n), NumTest(n) + 1, n)

NoModel == [is_none |-> TRUE, n_features_in |-> 0, X |-> <<>>, y |-> <<>>]

\* RandomForestRegressor(...).fit(X_train, y_train), lines 140-146.  The fitted
\* forest is a function of the training rows alone (random_state is fixed).
Fit(X_train, y_train) ==
    [is_none |-> FALSE, n_features_in |-> Len(X_train[1]), X |-> X_train, y |-> y_train]

\* Tree t is grown on a bootstrap sample of the training rows: here, all rows
\* but one when there are several.
Bootstrap(m, t) ==
    LET n == Len(m.y)
    IN  IF n = 1 THEN {1} ELSE (1..n) \ {((t - 1) % n) + 1}

Distance(x1, x2) == Cardinality({p \in 1..Len(x1) : x1[p] # x2[p]})

\* tree.predict(x), line 234: a fully grown tree answers with the target of the
\* training row of its sample whose leaf x falls into, here the row nearest to x.
TreePredict(m, t, x) ==
    Only({m.y[CHOOSE k \in rows :
                \A j \in rows : dist[k] < dist[j] \/ (dist[k] = dist[j] /\ k <= j)] :
          rows \in {Bootstrap(m, t)},
          dist \in {Array([k \in 1..Len(m.X) |-> Distance(m.X[k], x)])}})

TreePredictions(m, x) == Array([t \in 1..NumTrees |-> TreePredict(m, t, x)])

\* model.predict(x), line 229: the mean over the trees
Predict(m, x) == Mean(TreePredictions(m, x))

\* np.std, line 237: the population deviation
Std(s) ==
    Only({Sqrt(Sub(Mean(Array([k \in 1..Len(s) |-> Mul(s[k], s[k])])), Mul(mu, mu))) :
          mu \in {Mean(s)}})

AbsV(a) == IF Lt(a, Zero) THEN Neg(a) ELSE a

\* Python's max(a, b) and min(a, b): the first argument unless the second
\* is strictly greater (smaller)
PyMax(a, b) == IF Gt(b, a) THEN b ELSE a
\* the larger of the two where the smaller is meant
Larger(a, b) == PyMax(a, b)
PyMin(a, b) == IF Lt(b, a) THEN b ELSE a

\* lines 237-238
Confidence(prediction, tree_predictions) ==
    IF prediction # Zero
    THEN Sub(One, Div(Std(tree_predictions), AbsV(prediction)))
    ELSE Zero

\* the confidence as computed, not brought into [0, 0.95]
Unclipped(prediction, tree_predictions) ==
    Confidence(prediction, tree_predictions)

\* line 238: the score appended
ConfidenceScore(prediction, tree_predictions) ==
    Only({PyMin(mx, Q(95, 100)) :
          mx \in {Only({PyMax(confidence, Zero) :
                        confidence \in {Confidence(prediction, tree_predictions)}})}})

\* lines 229-238: the score appended for a step, from the answers of the trees
\* (model.predict is the mean of the trees' answers)
StepConfidence(tree_predictions) ==
    ConfidenceScore(Mean(tree_predictions), tree_predictions)

(***************************************************************************)
(* create_feature_from_prediction, lines 160-190.                          *)
(***************************************************************************)
\* a synthetic day with the two Bollinger bands in each other's place
create_feature_bands_swapped(prediction, last_real_data) ==
    <<prediction, Mul(prediction, Q(101, 100)), Mul(prediction, Q(99, 100)),
      prediction, last_real_data["Volume"],
      Div(Add(Mul(last_real_data["MA_5"], Num(4)), prediction), Num(5)),
      Div(Add(Mul(last_real_data["MA_10"], Num(9)), prediction), Num(10)),
      Div(Add(Mul(last_real_data["MA_20"], Num(19)), prediction), Num(20)),
      Div(Add(Mul(last_real_data["MA_30"], Num(29)), prediction), Num(30)),
      last_real_data["RSI"], last_real_data["MACD"],
      last_real_data["MACD_Signal"], last_real_data["MACD_Histogram"],
      last_real_data["BB_Lower"], last_real_data["BB_Upper"],
      last_real_data["BB_Width"],
      Div(Sub(prediction, last_real_data["Close"]), last_real_data["Close"]),
      last_real_data["Volume_Change"], last_real_data["Volatility"]>>

\* a synthetic day whose high and low lie 10 percent off the prediction
create_feature_wide_range(prediction, last_real_data) ==
    <<prediction, Mul(prediction, Q(110, 100)), Mul(prediction, Q(90, 100)),
      prediction, last_real_data["Volume"],
      Div(Add(Mul(last_real_data["MA_5"], Num(4)), prediction), Num(5)),
      Div(Add(Mul(last_real_data["MA_10"], Num(9)), prediction), Num(10)),
      Div(Add(Mul(last_real_data["MA_20"], Num(19)), prediction), Num(20)),
      Div(Add(Mul(last_real_data["MA_30"], Num(29)), prediction), Num(30)),
      last_real_data["RSI"], last_real_data["MACD"],
      last_real_data["MACD_Signal"], last_real_data["MACD_Histogram"],
      last_real_data["BB_Upper"], last_real_data["BB_Lower"],
      last_real_data["BB_Width"],
      Div(Sub(prediction, last_real_data["Close"]), last_real_data["Close"]),
      last_real_data["Volume_Change"], last_real_data["Volatility"]>>

create_feature_from_prediction(prediction, last_real_data) ==
    LET new_open == prediction
        new_high == Mul(prediction, Q(101, 100))
        new_low == Mul(prediction, Q(99, 100))
        new_close == prediction
        new_volume == last_real_data["Volume"]
        new_ma_5 == Div(Add(Mul(last_real_data["MA_5"], Num(4)), prediction), Num(5))
        new_ma_10 == Div(Add(Mul(last_real_data["MA_10"], Num(9)), prediction), Num(10))
        new_ma_20 == Div(Add(Mul(last_real_data["MA_20"], Num(19)), prediction), Num(20))
        new_ma_30 == Div(Add(Mul(last_real_data["MA_30"], Num(29)), prediction), Num(30))
        new_rsi == last_real_data["RSI"]
        new_macd == last_real_data["MACD"]
        new_macd_signal == last_real_data["MACD_Signal"]
        new_macd_histogram == last_real_data["MACD_Histogram"]
        new_bb_upper == last_real_data["BB_Upper"]
        new_bb_lower == last_real_data["BB_Lower"]
        new_bb_width == last_real_data["BB_Width"]
        new_price_change ==
            Div(Sub(prediction, last_real_data["Close"]), last_real_data["Close"])
        new_volume_change == last_real_data["Volume_Change"]
        new_volatility == last_real_data["Volatility"]
    IN  <<new_open, new_high, new_low, new_close, new_volume,
          new_ma_5, new_ma_10, new_ma_20, new_ma_30,
          new_rsi, new_macd, new_macd_signal, new_macd_histogram,
          new_bb_upper, new_bb_lower, new_bb_width,
          new_price_change, new_volume_change, new_volatility>>

\* The synthesized day appended to the window, nothing dropped
GrowWindow(current_features, new_day_features) ==
    current_features \o new_day_features

\* np.roll(a, -k) of a one-row array: rotation to the left by k
Roll(a, k) == Array([p \in 1..Len(a) |-> a[((p - 1 + k) % Len(a)) + 1]])

\* lines 242-244: roll, then overwrite the last features_per_day positions
SlideWindow(current_features, new_day_features) ==
    Only({Array([p \in 1..Len(rolled) |->
                IF p > Len(rolled) - features_per_day
                THEN new_day_features[p - (Len(rolled) - features_per_day)]
                ELSE rolled[p]]) :
          rolled \in {Roll(current_features, features_per_day)}})

\* an update that also refreshes the oscillator, from the field next to it
UpdateLastRealDataAndRSI(last_real_data, prediction, new_day_features) ==
    [last_real_data EXCEPT !["Close"] = prediction,
                           !["Open"] = new_day_features[1],
                           !["High"] = new_day_features[2],
                           !["Low"] = new_day_features[3],
                           !["Volume"] = new_day_features[4],
                           !["RSI"] = new_day_features[9]]

\* an update that leaves the close of the last real bar in place
UpdateLastRealDataKeepClose(last_real_data, prediction, new_day_features) ==
    [last_real_data EXCEPT !["Open"] = new_day_features[1],
                           !["High"] = new_day_features[2],
                           !["Low"] = new_day_features[3],
                           !["Volume"] = new_day_features[4]]

\* lines 246-250
UpdateLastRealData(last_real_data, prediction, new_day_features) ==
    [last_real_data EXCEPT !["Close"] = prediction,
                           !["Open"] = new_day_features[1],
                           !["High"] = new_day_features[2],
                           !["Low"] = new_day_features[3],
                           !["Volume"] = new_day_features[4]]

\* lines 198-218: the last row of the frame, by column name
LastRow(d) ==
    [Open |-> d.col["Open"][NumBars(d)],
     High |-> d.col["High"][NumBars(d)],
     Low |-> d.col["Low"][NumBars(d)],
     Close |-> d.col["Close"][NumBars(d)],
     Volume |-> d.col["Volume"][NumBars(d)],
     MA_5 |-> d.col["MA_5"][NumBars(d)],
     MA_10 |-> d.col["MA_10"][NumBars(d)],
     MA_20 |-> d.col["MA_20"][NumBars(d)],
     MA_30 |-> d.col["MA_30"][NumBars(d)],
     RSI |-> d.col["RSI"][NumBars(d)],
     MACD |-> d.col["MACD"][NumBars(d)],
     MACD_Signal |-> d.col["MACD_Signal"][NumBars(d)],
     MACD_Histogram |-> d.col["MACD_Histogram"][NumBars(d)],
     BB_Upper |-> d.col["BB_Upper"][NumBars(d)],
     BB_Lower |-> d.col["BB_Lower"][NumBars(d)],
     BB_Width |-> d.col["BB_Width"][NumBars(d)],
     Price_Change |-> d.col["Price_Change"][NumBars(d)],
     Volume_Change |-> d.col["Volume_Change"][NumBars(d)],
     Volatility |-> d.col["Volatility"][NumBars(d)]]


(***************************************************************************)
(* The methods of StockPredictor as functions from the fields they read to *)
(* the fields they write and their outcome.  An outcome is the returned    *)
(* value ("True", "False", "None", "forecast") or the name of the          *)
(* exception that leaves the method.                                       *)
(***************************************************************************)
NoFeatures == [has |-> FALSE, rows |-> <<>>]

\* get_stock_data without the test of lines 37-39 for an empty frame
get_stock_data_unchecked(d, answer) ==
    IF answer[1] = "exception"
    THEN [data |-> d, outcome |-> "False"]
    ELSE [data |-> ProviderHistory(answer[1], answer[2]), outcome |-> "True"]

\* lines 23-46.  answer = <<"exception", 0>> when the provider call raises,
\* else <<shape, L>>: the history it returns.
get_stock_data(d, answer) ==
    IF answer[1] = "exception"
    THEN [data |-> d, outcome |-> "False"]
    ELSE LET h == ProviderHistory(answer[1], answer[2])
         IN  [data |-> h, outcome |-> IF NumBars(h) = 0 THEN "False" ELSE "True"]

\* lines 119-128, given the frame with its indicators and the candidates
FilterCandidates(d2, cf, ct) ==
    IF Len(cf) = 0
    THEN \* np.array([]) is one-dimensional: .any(axis=1) raises
         [data |-> d2, features |-> [has |-> TRUE, rows |-> <<>>],
          targets |-> <<>>, outcome |-> "AxisError"]
    ELSE Only({[data |-> d2,
                features |-> [has |-> TRUE, rows |-> MaskSelect(cf, valid_indices)],
                targets |-> MaskSelect(ct, valid_indices),
                outcome |-> "True"] :
               valid_indices \in {ValidIndices(cf, ct)}})

\* a prepare_features that adds its samples to those already there
prepare_features_extend(d, f, t, lookback) ==
    IF d.is_none
    THEN [data |-> d, features |-> f, targets |-> t, outcome |-> "False"]
    ELSE Only({[r EXCEPT !.features.rows = f.rows \o @, !.targets = t \o @] :
               r \in {Only({FilterCandidates(d2, CandidateFeatures(d2, lookback),
                                             CandidateTargets(d2, lookback)) :
                            d2 \in {WithIndicators(d)}})}})

\* a prepare_features that drops the first bar of the series along with
\* its undefined indicators
prepare_features_dropna(d, f, t, lookback) ==
    IF d.is_none
    THEN [data |-> d, features |-> f, targets |-> t, outcome |-> "False"]
    ELSE Only({FilterCandidates(d2, CandidateFeatures(d2, lookback),
                                CandidateTargets(d2, lookback)) :
               d2 \in {[index |-> SubSeq(w.index, 2, Len(w.index)),
                        is_none |-> FALSE,
                        col |-> [c \in DOMAIN w.col |->
                                    SubSeq(w.col[c], 2, Len(w.index))]] :
                       w \in {WithIndicators(d)}}})

\* lines 48-128 (self.lookback_days is set by the caller of this operator)
prepare_features(d, f, t, lookback) ==
    IF d.is_none
    THEN [data |-> d, features |-> f, targets |-> t, outcome |-> "False"]
    ELSE Only({FilterCandidates(d2, CandidateFeatures(d2, lookback),
                                CandidateTargets(d2, lookback)) :
               d2 \in {WithIndicators(d)}})

NoDiag == [MSE |-> NaN, MAE |-> NaN, MAPE |-> NaN, mape |-> NaN, printed |-> FALSE]

\* lines 149-151, from the held-out targets and the predictions for them
Errors(y_test, y_pred) ==
    [MSE |-> Mean(Array([k \in 1..Len(y_test) |->
                Mul(Sub(y_test[k], y_pred[k]), Sub(y_test[k], y_pred[k]))])),
     MAE |-> Mean(Array([k \in 1..Len(y_test) |-> AbsV(Sub(y_test[k], y_pred[k]))])),
     MAPE |-> Mul(Mean(Array([k \in 1..Len(y_test) |->
                AbsV(Div(Sub(y_test[k], y_pred[k]), y_test[k]))])), Num(100))]

\* lines 148-156: the diagnostics computed, and the three values printed
Diagnostics(m, X_test, y_test) ==
    Only({[MSE |-> e.MSE, MAE |-> e.MAE, MAPE |-> e.MAE, mape |-> e.MAPE,
           printed |-> TRUE] :
          e \in {Errors(y_test, Array([k \in 1..Len(X_test) |-> Predict(m, X_test[k])]))}})

\* lines 136-146: the forest fitted to the training part of the split
FitOn(f, t, tr) ==
    Fit(Array([k \in 1..Len(tr) |-> f.rows[tr[k]]]),
        Array([k \in 1..Len(tr) |-> t[tr[k]]]))

\* lines 136-158, given the rows of the two parts of the split
TrainOn(f, t, tr, te) ==
    Only({[model |-> fitted,
           diag |-> Diagnostics(fitted,
                                Array([k \in 1..Len(te) |-> f.rows[te[k]]]),
                                Array([k \in 1..Len(te) |-> t[te[k]]])),
           outcome |-> "True"] :
          fitted \in {FitOn(f, t, tr)}})

\* lines 130-158
train_model(f, t, m, dg) ==
    IF ~f.has \/ Len(f.rows) = 0
    THEN [model |-> m, diag |-> dg, outcome |-> "False"]
    ELSE IF Len(f.rows) - NumTest(Len(f.rows)) = 0
         THEN \* train_test_split: the resulting train set will be empty
              [model |-> m, diag |-> dg, outcome |-> "ValueError"]
         ELSE TrainOn(f, t, TrainRows(Len(f.rows)), TestRows(Len(f.rows)))

\* predict_future's locals; idle between calls
NoLocals ==
    [days |-> 0, day |-> 0, predictions |-> <<>>, confidence_scores |-> <<>>,
     future_dates |-> <<>>, current_features |-> <<>>, last_real_data |-> <<>>]

\* One calendar day later for each step, whatever the step
DatesFromLastBar(d, days) == [i \in 1..days |-> d.index[NumBars(d)] + i - 1]

\* lines 223-226: last_date + Timedelta(days = i + 1) for i in range(days)
FutureDates(d, days) == [i \in 1..days |-> d.index[NumBars(d)] + i]

\* lines 198-226: the last row, the dates and the last window are read
predict_future_setup(d, f, m, days) ==
    IF NumBars(d) = 0 THEN [outcome |-> "IndexError", loc |-> NoLocals]
    ELSE IF ~HasColumn(d, "MA_5") THEN [outcome |-> "KeyError", loc |-> NoLocals]
    ELSE IF Len(f.rows) = 0 THEN [outcome |-> "IndexError", loc |-> NoLocals]
    ELSE [outcome |-> "loop",
          loc |-> [days |-> days, day |-> 0,
                   predictions |-> <<>>, confidence_scores |-> <<>>,
                   future_dates |-> FutureDates(d, days),
                   current_features |-> f.rows[Len(f.rows)],
                   last_real_data |-> LastRow(d)]]

\* predict_future without the test of lines 194-196 for a missing model
predict_future_unguarded(d, f, m, days) ==
    predict_future_setup(d, f, m, days)

\* lines 194-226: the outcome of the part before the loop and the locals it sets
predict_future_begin(d, f, m, days) ==
    IF m.is_none
    THEN [outcome |-> "None", loc |-> NoLocals]
    ELSE predict_future_setup(d, f, m, days)

\* lines 230-250, given the answers of the forest
Iteration(l, prediction, score, new_day_features) ==
    [l EXCEPT
        !.day = l.day + 1,
        !.predictions = Append(l.predictions, prediction),
        !.confidence_scores = Append(l.confidence_scores, score),
        !.current_features =
            IF l.day < l.days - 1
            THEN SlideWindow(l.current_features, new_day_features)
            ELSE l.current_features,
        !.last_real_data =
            IF l.day < l.days - 1
            THEN UpdateLastRealData(l.last_real_data, prediction, new_day_features)
            ELSE l.last_real_data]

\* lines 229-250: one iteration of the loop, for day = l.day
predict_future_step(m, l) ==
    IF Len(l.current_features) # m.n_features_in
    THEN \* model.predict: X has a different number of features than the fit
         [outcome |-> "ValueError", loc |-> NoLocals]
    ELSE Only({[outcome |-> "loop",
                loc |-> Iteration(l, Mean(tree_predictions),
                            StepConfidence(tree_predictions),
                            create_feature_from_prediction(Mean(tree_predictions),
                                                           l.last_real_data))] :
               tree_predictions \in {TreePredictions(m, l.current_features)}})

(***************************************************************************)
(* The state: one StockPredictor instance, the call in progress on it and  *)
(* what the last call gave back.                                           *)
(***************************************************************************)
VARIABLES
    data,           \* self.data
    lookback_days,  \* self.lookback_days
    features,       \* self.features (has = FALSE: the attribute is not set)
    targets,        \* self.targets
    model,          \* self.model
    pc,             \* "idle", or the stage of the call in progress
    caller,         \* "api": the method was called directly; "analyze_stock"
    req,            \* arguments of the analyze_stock call in progress
    loc,            \* locals of the predict_future call in progress
    ret,            \* the last finished call and its result
    stages,         \* stages run by the current (last) analyze_stock call
    diag,           \* what train_model last computed and printed
    probe,          \* inputs and result of the confidence computation alone
    ncalls,         \* calls made on the instance so far
    last_forecast   \* the forecast given back last by the instance as it is now

vars == <<data, lookback_days, features, targets, model, pc, caller, req, loc,
          ret, stages, diag, probe, ncalls, last_forecast>>
self == <<data, lookback_days, features, targets, model>>

\* line 20, and the lookback analyze_stock passes at line 365
DefaultLookback == 30
\* forecast lengths tried
MaxDays == 3

\* calls made on the instance in one behaviour
MaxCalls == 3

\* What the provider may answer: a failure; no bars; fewer bars than a window
\* and its target need; the 40 flat bars of the specification's scenario; and
\* histories long enough for one, two and more complete windows.
ProviderAnswers ==
    {<<"exception", 0>>, <<"flat", 0>>, <<"rising", DefaultLookback + 1>>,
     <<"flat", 40>>, <<"rising", 61>>, <<"rising", 62>>, <<"zigzag", MaxBars>>}
Lookbacks == {DefaultLookback - 1, DefaultLookback}

\* what the last call gave back; again: it repeated the call before it
NoRet == [op |-> "none", days |-> 0, outcome |-> "none", predictions |-> <<>>,
          confidence_scores |-> <<>>, future_dates |-> <<>>, reported |-> FALSE,
          again |-> FALSE]
NoProbe == [a |-> <<>>, b |-> <<>>, estimated |-> FALSE, conf_a |-> Zero, conf_b |-> Zero]

\* Only the first step of the forecast is given back
FirstStepOnly(op, l) ==
    [NoRet EXCEPT !.op = op, !.outcome = "forecast", !.days = l.days,
                  !.predictions = IF l.days = 0 THEN <<>> ELSE <<l.predictions[1]>>,
                  !.confidence_scores =
                      IF l.days = 0 THEN <<>> ELSE <<l.confidence_scores[1]>>,
                  !.future_dates = IF l.days = 0 THEN <<>> ELSE <<l.future_dates[1]>>]

\* a call that gave back no forecast: a plain value, or an exception
Returned(op, outcome) == [NoRet EXCEPT !.op = op, !.outcome = outcome]
\* line 252: the three lists predict_future returns
Forecast(op, l) ==
    [NoRet EXCEPT !.op = op, !.outcome = "forecast", !.days = l.days,
                  !.predictions = l.predictions,
                  !.confidence_scores = l.confidence_scores,
                  !.future_dates = l.future_dates]

\* no forecast was given back yet
NoForecast ==
    [has |-> FALSE, self |-> <<>>, days |-> 0, predictions |-> <<>>,
     confidence_scores |-> <<>>, future_dates |-> <<>>]

\* the last forecast is remembered for as long as the instance stays as it is
KeptForecast == IF self' = self THEN last_forecast ELSE NoForecast

\* the forecast about to be given back is for as many days as the last one,
\* and the instance is as it was then
SameRun ==
    /\ last_forecast.has
    /\ last_forecast.days = loc.days
    /\ last_forecast.self = self

\* lines 16-21
Init ==
    /\ data = NoData
    /\ lookback_days = DefaultLookback
    /\ features = NoFeatures
    /\ targets = <<>>
    /\ model = NoModel
    /\ pc = "idle"
    /\ caller = "api"
    /\ req = [predict_days |-> 0]
    /\ loc = NoLocals
    /\ ret = NoRet
    /\ stages = <<>>
    /\ diag = NoDiag
    /\ probe = NoProbe
    /\ ncalls = 0
    /\ last_forecast = NoForecast

(***************************************************************************)
(* Direct calls of the methods.                                            *)
(***************************************************************************)
Call ==
    /\ pc = "idle"
    /\ ncalls < MaxCalls
    /\ ncalls' = ncalls + 1

GetStockData(answer) ==
    /\ Call
    /\ \E r \in {get_stock_data(data, answer)} :
           /\ data' = r.data
           /\ ret' = Returned("get_stock_data", r.outcome)
    /\ UNCHANGED <<lookback_days, features, targets, model, pc, caller, req, loc,
                   stages, diag, probe>>
    /\ last_forecast' = KeptForecast

PrepareFeatures(lookback) ==
    /\ Call
    /\ lookback_days' = lookback
    /\ \E r \in {prepare_features(data, features, targets, lookback)} :
           /\ data' = r.data
           /\ features' = r.features
           /\ targets' = r.targets
           /\ ret' = [Returned("prepare_features", r.outcome) EXCEPT
                         !.again = /\ ret.op = "prepare_features"
                                   /\ lookback_days = lookback]
    /\ UNCHANGED <<model, pc, caller, req, loc, stages, diag, probe>>
    /\ last_forecast' = KeptForecast

TrainModel ==
    /\ Call
    /\ \E r \in {train_model(features, targets, model, diag)} :
           /\ model' = r.model
           /\ diag' = r.diag
           /\ ret' = Returned("train_model", r.outcome)
    /\ UNCHANGED <<data, lookback_days, features, targets, pc, caller, req, loc,
                   stages, probe>>
    /\ last_forecast' = KeptForecast

PredictFuture(days) ==
    /\ Call
    /\ \E r \in {predict_future_begin(data, features, model, days)} :
           /\ loc' = r.loc
           /\ IF r.outcome = "loop"
              THEN pc' = "loop" /\ ret' = NoRet
              ELSE /\ pc' = "idle"
                   /\ ret' = [Returned("predict_future", r.outcome) EXCEPT !.days = days]
    /\ UNCHANGED <<self, caller, req, stages, diag, probe, last_forecast>>

(***************************************************************************)
(* The loop of predict_future, for either caller.  An exception leaves     *)
(* predict_future and, uncaught in analyze_stock, that call as well.       *)

\* The loop step of a forest that is not seeded: every other call it answers
\* from a forest grown without the last training row
PredictStepUnseeded ==
    /\ pc = "loop"
    /\ loc.day < loc.days
    /\ \E r \in {predict_future_step(
                    IF ncalls % 2 = 1 /\ Len(model.y) > 1
                    THEN [model EXCEPT !.X = SubSeq(@, 1, Len(@) - 1),
                                       !.y = SubSeq(@, 1, Len(@) - 1)]
                    ELSE model, loc)} :
           /\ loc' = r.loc
           /\ IF r.outcome = "loop"
              THEN UNCHANGED <<pc, caller, ret, stages>>
              ELSE /\ pc' = "idle"
                   /\ caller' = "api"
                   /\ ret' = [Returned(IF caller = "api" THEN "predict_future"
                                       ELSE "analyze_stock", r.outcome)
                                 EXCEPT !.days = loc.days]
                   /\ stages' = IF caller = "api" THEN stages
                                ELSE Append(stages, <<"predict_future", r.outcome>>)
    /\ UNCHANGED <<self, req, diag, probe, ncalls, last_forecast>>

(***************************************************************************)
PredictStep ==
    /\ pc = "loop"
    /\ loc.day < loc.days
    /\ \E r \in {predict_future_step(model, loc)} :
           /\ loc' = r.loc
           /\ IF r.outcome = "loop"
              THEN UNCHANGED <<pc, caller, ret, stages>>
              ELSE /\ pc' = "idle"
                   /\ caller' = "api"
                   /\ ret' = [Returned(IF caller = "api" THEN "predict_future"
                                       ELSE "analyze_stock", r.outcome)
                                 EXCEPT !.days = loc.days]
                   /\ stages' = IF caller = "api" THEN stages
                                ELSE Append(stages, <<"predict_future", r.outcome>>)
    /\ UNCHANGED <<self, req, diag, probe, ncalls, last_forecast>>

\* line 252
PredictReturn ==
    /\ pc = "loop"
    /\ loc.day = loc.days
    /\ loc' = NoLocals
    /\ IF caller = "api"
       THEN /\ pc' = "idle"
            /\ ret' = [Forecast("predict_future", loc) EXCEPT !.again = SameRun]
            /\ UNCHANGED stages
       ELSE /\ pc' = "report"
            /\ ret' = Forecast("analyze_stock", loc)
            /\ stages' = Append(stages, <<"predict_future", "forecast">>)
    /\ last_forecast' = [has |-> TRUE, self |-> self, days |-> loc.days,
                         predictions |-> loc.predictions,
                         confidence_scores |-> loc.confidence_scores,
                         future_dates |-> loc.future_dates]
    /\ UNCHANGED <<self, caller, req, diag, probe, ncalls>>

(***************************************************************************)
(* analyze_stock, lines 355-421, stage by stage.                           *)
(***************************************************************************)
AnalyzeStock ==
    /\ Call
    /\ pc' = "get_stock_data"
    /\ caller' = "analyze_stock"
    /\ req' = [predict_days |-> 0]
    /\ stages' = <<>>
    /\ ret' = NoRet
    /\ UNCHANGED <<self, loc, diag, probe, last_forecast>>

\* analyze_stock is left: by a return (outcome "None") or by an exception
AnalyzeLeaves(outcome, last) ==
    /\ pc' = "idle"
    /\ caller' = "api"
    /\ ret' = [last EXCEPT !.op = "analyze_stock", !.outcome = outcome]

\* lines 361-362
AnalyzeGetStockData(answer) ==
    /\ pc = "get_stock_data"
    /\ \E r \in {get_stock_data(data, answer)} :
           /\ data' = r.data
           /\ stages' = Append(stages, <<"get_stock_data", r.outcome>>)
           /\ IF r.outcome = "True"
              THEN pc' = "prepare_features" /\ UNCHANGED <<caller, ret>>
              ELSE AnalyzeLeaves("None", NoRet)
    /\ UNCHANGED <<lookback_days, features, targets, model, req, loc, diag, probe,
                   ncalls>>
    /\ last_forecast' = KeptForecast

\* lines 365-366
AnalyzePrepareFeatures ==
    /\ pc = "prepare_features"
    /\ lookback_days' = DefaultLookback
    /\ \E r \in {prepare_features(data, features, targets, DefaultLookback)} :
           /\ data' = r.data
           /\ features' = r.features
           /\ targets' = r.targets
           /\ stages' = Append(stages, <<"prepare_features", r.outcome>>)
           /\ IF r.outcome = "True"
              THEN pc' = "train_model" /\ UNCHANGED <<caller, ret>>
              ELSE AnalyzeLeaves(IF r.outcome = "False" THEN "None" ELSE r.outcome, NoRet)
    /\ UNCHANGED <<model, req, loc, diag, probe, ncalls>>
    /\ last_forecast' = KeptForecast

\* lines 369-370
AnalyzeTrainModel ==
    /\ pc = "train_model"
    /\ \E r \in {train_model(features, targets, model, diag)} :
           /\ model' = r.model
           /\ diag' = r.diag
           /\ stages' = Append(stages, <<"train_model", r.outcome>>)
           /\ IF r.outcome = "True"
              THEN pc' = "predict_future" /\ UNCHANGED <<caller, ret>>
              ELSE AnalyzeLeaves(IF r.outcome = "False" THEN "None" ELSE r.outcome, NoRet)
    /\ UNCHANGED <<data, lookback_days, features, targets, req, loc, probe, ncalls>>
    /\ last_forecast' = KeptForecast

\* line 373, up to the loop.  The argument predict_days is first read here:
\* its value is drawn when it is read.
AnalyzePredictFuture(predict_days) ==
    /\ pc = "predict_future"
    /\ req' = [predict_days |-> predict_days]
    /\ \E r \in {predict_future_begin(data, features, model, predict_days)} :
           /\ loc' = r.loc
           /\ IF r.outcome = "loop"
              THEN pc' = "loop" /\ UNCHANGED <<caller, ret, stages>>
              ELSE /\ stages' = Append(stages, <<"predict_future", r.outcome>>)
                   /\ AnalyzeLeaves(r.outcome, NoRet)
    /\ UNCHANGED <<self, diag, probe, ncalls, last_forecast>>

\* lines 375-412: the report is printed when the list of predictions is not empty
AnalyzeReport ==
    /\ pc = "report"
    /\ IF ret.predictions # <<>>
       THEN /\ pc' = "plot"
            /\ ret' = [ret EXCEPT !.reported = TRUE]
            /\ stages' = Append(stages, <<"report", "printed">>)
            /\ UNCHANGED caller
       ELSE /\ AnalyzeLeaves("None", ret)
            /\ UNCHANGED stages
    /\ UNCHANGED <<self, req, loc, diag, probe, ncalls, last_forecast>>

\* lines 414-421: the plots raise or not; in the handler plt.show may raise again
AnalyzePlot(plot, fallback) ==
    /\ pc = "plot"
    /\ IF plot = "ok"
       THEN /\ stages' = Append(stages, <<"plot", "shown">>)
            /\ AnalyzeLeaves("None", ret)
       ELSE IF fallback = "ok"
       THEN /\ stages' = Append(stages, <<"plot", "fallback">>)
            /\ AnalyzeLeaves("None", ret)
       ELSE /\ stages' = Append(stages, <<"plot", "Exception">>)
            /\ AnalyzeLeaves("Exception", ret)
    /\ UNCHANGED <<self, req, loc, diag, probe, ncalls, last_forecast>>

Next ==
    \/ \E answer \in ProviderAnswers : GetStockData(answer)
    \/ \E lookback \in Lookbacks : PrepareFeatures(lookback)
    \/ TrainModel
    \/ \E days \in 0..MaxDays : PredictFuture(days)
    \/ PredictStep
    \/ PredictReturn
    \/ AnalyzeStock
    \/ \E answer \in ProviderAnswers : AnalyzeGetStockData(answer)
    \/ AnalyzePrepareFeatures
    \/ AnalyzeTrainModel
    \/ \E predict_days \in 0..MaxDays : AnalyzePredictFuture(predict_days)
    \/ AnalyzeReport
    \/ \E plot \in {"ok", "raise"}, fallback \in {"ok", "raise"} : AnalyzePlot(plot, fallback)

Spec == Init /\ [][Next]_vars

(***************************************************************************)
(* The confidence computation of lines 232-238 alone, on answers of the    *)
(* trees that no small training set yields: negative, zero and mixed ones. *)
(* The inputs are drawn two at a time, so that two computations can be     *)
(* compared.                                                               *)
(***************************************************************************)
MaxEstimate == 2
TreeEstimates == (0 - MaxEstimate)..MaxEstimate
EstimateTuples == [1..NumTrees -> TreeEstimates]
Nums(a) == Array([k \in 1..Len(a) |-> Num(a[k])])

ConfInit ==
    /\ data = NoData
    /\ lookback_days = DefaultLookback
    /\ features = NoFeatures
    /\ targets = <<>>
    /\ model = NoModel
    /\ pc = "idle"
    /\ caller = "api"
    /\ req = [predict_days |-> 0]
    /\ loc = NoLocals
    /\ ret = NoRet
    /\ stages = <<>>
    /\ diag = NoDiag
    /\ ncalls = 0
    /\ last_forecast = NoForecast
    /\ probe \in {[NoProbe EXCEPT !.a = Nums(a), !.b = Nums(b)] :
                     a \in EstimateTuples, b \in EstimateTuples}

ConfEstimate ==
    /\ ~probe.estimated
    /\ probe' = [probe EXCEPT !.estimated = TRUE,
                              !.conf_a = StepConfidence(probe.a),
                              !.conf_b = StepConfidence(probe.b)]
    /\ UNCHANGED <<self, pc, caller, req, loc, ret, stages, diag, ncalls,
                   last_forecast>>

ConfNext == ConfEstimate

ConfSpec == ConfInit /\ [][ConfNext]_vars

(***************************************************************************)
(* Properties of the forecast and of the pipeline.                         *)
(***************************************************************************)

\* A trained predictor: the model is the one train_model fits to the current
\* training set, which prepare_features built from the loaded series.
Trained ==
    /\ ~model.is_none
    /\ HasColumn(data, "MA_5")
    /\ Len(features.rows) > 1
    /\ model = FitOn(features, targets, TrainRows(Len(features.rows)))

Increasing(s) == \A k \in 1..(Len(s) - 1) : s[k] < s[k + 1]

\* C1: on a trained predictor predict_future(days = d) gives back exactly d
\* predictions, d confidence scores and d dates, without an error, also for
\* d = 0; the dates increase strictly and are all later than the last bar's.
C1_ForecastLengths ==
    (pc = "idle" /\ ret.op = "predict_future" /\ Trained) =>
        /\ ret.outcome = "forecast"
        /\ Len(ret.predictions) = ret.days
        /\ Len(ret.confidence_scores) = ret.days
        /\ Len(ret.future_dates) = ret.days
        /\ Increasing(ret.future_dates)
        /\ \A k \in 1..Len(ret.future_dates) :
               ret.future_dates[k] > data.index[NumBars(data)]

C1_Witness ==
    /\ pc = "idle" /\ ret.op = "predict_future" /\ Trained
    /\ ret.days = MaxDays
    /\ Len(ret.predictions) = MaxDays

InRange(c) == Le(Zero, c) /\ Le(c, Q(95, 100))

\* C2: the confidence score of a step lies in [0, 0.95] whatever the trees
\* answer (positive, negative, zero, mixed), and is 0 when their mean is 0.
C2_ConfidenceRange ==
    probe.estimated =>
        /\ InRange(probe.conf_a)
        /\ InRange(probe.conf_b)
        /\ (Mean(probe.a) = Zero => probe.conf_a = Zero)
        /\ (Mean(probe.b) = Zero => probe.conf_b = Zero)

C2_Witness ==
    /\ probe.estimated
    /\ Lt(Mean(probe.a), Zero)
    /\ Lt(Zero, probe.conf_a) /\ Lt(probe.conf_a, Q(95, 100))
    /\ Mean(probe.b) = Zero /\ probe.b[1] # Zero

Agree(a) == \A k \in 1..Len(a) : a[k] = a[1]

\* C3: when all trees answer the same non-zero value the confidence is the
\* ceiling 0.95; and of two steps with the same non-zero mean, the one whose
\* answers are less dispersed has no lower confidence.
C3_AgreementRaisesConfidence ==
    probe.estimated =>
        /\ (Agree(probe.a) /\ Mean(probe.a) # Zero) => probe.conf_a = Q(95, 100)
        /\ (/\ Mean(probe.a) = Mean(probe.b)
            /\ Mean(probe.a) # Zero
            /\ Le(Std(probe.a), Std(probe.b))) => Le(probe.conf_b, probe.conf_a)

C3_Witness ==
    /\ probe.estimated
    /\ Mean(probe.a) = Mean(probe.b)
    /\ Lt(Mean(probe.a), Zero)
    /\ Lt(Std(probe.a), Std(probe.b))
    /\ Lt(probe.conf_b, probe.conf_a)

\* C4: in the forecast loop current_features has the length lookback_days * 19
\* throughout; a non-final step drops the oldest day's 19 fields, moves the
\* others 19 positions to the left in their order, and writes the synthesized
\* day's 19 fields into the last 19 positions.
C4_SlidingWindow ==
    [][(pc = "loop" /\ pc' = "loop" /\ loc'.day = loc.day + 1) =>
          /\ Len(loc.current_features) = lookback_days * features_per_day
          /\ Len(loc'.current_features) = lookback_days * features_per_day
          /\ (loc.day < loc.days - 1) =>
                /\ \A p \in 1..(Len(loc.current_features) - features_per_day) :
                       loc'.current_features[p] =
                           loc.current_features[p + features_per_day]
                /\ SubSeq(loc'.current_features,
                          Len(loc.current_features) - features_per_day + 1,
                          Len(loc.current_features))
                     = create_feature_from_prediction(loc'.predictions[loc'.day],
                                                      loc.last_real_data)]_vars

C4_Witness ==
    /\ pc = "loop"
    /\ loc.day = 1 /\ loc.days > 1
    /\ Len(loc.current_features) = lookback_days * features_per_day
    /\ loc.current_features # features.rows[Len(features.rows)]

\* C5: on a series of L >= lookback_days + 2 bars prepare_features builds one
\* candidate pair for each i from lookback_days to L - 2, so L - lookback_days
\* - 1 of them, each feature vector lookback_days * 19 long; the training set
\* is made of candidates.
C5_CandidateWindows ==
    (/\ pc = "idle" /\ ret.op = "prepare_features"
     /\ ~data.is_none
     /\ NumBars(data) >= lookback_days + 2) =>
        \A cf \in {CandidateFeatures(data, lookback_days)},
           ct \in {CandidateTargets(data, lookback_days)},
           idx \in {CandidateIndices(data, lookback_days)} :
            /\ ret.outcome = "True"
            /\ Len(idx) = NumBars(data) - lookback_days - 1
            /\ \A k \in 1..Len(idx) : idx[k] = lookback_days + k - 1
            /\ Len(cf) = Len(idx) /\ Len(ct) = Len(idx)
            /\ \A k \in 1..Len(cf) : Len(cf[k]) = lookback_days * features_per_day
            /\ Len(targets) = Len(features.rows)
            /\ \A k \in 1..Len(features.rows) :
                   \E j \in 1..Len(cf) :
                       features.rows[k] = cf[j] /\ targets[k] = ct[j]

C5_Witness ==
    /\ pc = "idle" /\ ret.op = "prepare_features"
    /\ NumBars(data) = MaxBars
    /\ Len(features.rows) > 1
    /\ Len(features.rows) < NumBars(data) - lookback_days - 1

\* C6: predict_future on a predictor without a model gives back the error
\* value: no prediction, no confidence score, no date; and it leaves every
\* field of the predictor as it was.
C6_UntrainedPredict ==
    [][\A days \in 0..MaxDays :
          (model.is_none /\ PredictFuture(days)) =>
              /\ pc' = "idle"
              /\ ret'.op = "predict_future" /\ ret'.outcome = "None"
              /\ ret'.predictions = <<>>
              /\ ret'.confidence_scores = <<>>
              /\ ret'.future_dates = <<>>
              /\ self' = self]_vars

C6_Witness ==
    /\ pc = "idle" /\ ret.op = "predict_future" /\ ret.outcome = "None"
    /\ model.is_none
    /\ Len(features.rows) > 0
    /\ ret.days > 0

\* C7: train_model on a training set that is not there, empty, or of a single
\* sample reports failure (gives back False) and leaves self.model alone.
C7_SmallSetReported ==
    [][(TrainModel /\ (~features.has \/ Len(features.rows) <= 1)) =>
          (ret'.outcome = "False" /\ model' = model)]_vars

\* C8: on a loaded series of at least one and fewer than lookback_days + 2 bars the stage
\* prepare_features reports failure (gives back False) rather than raising,
\* analyze_stock ends there normally, and there is no forecast.
C8_InsufficientHistoryReported ==
    /\ (/\ pc = "idle" /\ ret.op = "prepare_features"
        /\ ~data.is_none
        /\ NumBars(data) > 0
        /\ NumBars(data) < lookback_days + 2) => ret.outcome = "False"
    /\ (/\ pc = "idle" /\ ret.op = "analyze_stock"
        /\ Len(stages) >= 2
        /\ NumBars(data) < lookback_days + 2) =>
            /\ stages[2] = <<"prepare_features", "False">>
            /\ Len(stages) = 2
            /\ ret.outcome = "None"
            /\ ret.predictions = <<>>

PipelineStages == {"get_stock_data", "prepare_features", "train_model"}

\* C9: what analyze_stock has of a forecast is all predict_days steps or none;
\* and a stage among get_stock_data, prepare_features, train_model that does
\* not succeed is the last stage of its run.
C9_NoPartialForecast ==
    /\ (caller = "analyze_stock" \/ ret.op = "analyze_stock") =>
          /\ Len(ret.predictions) \in {0, req.predict_days}
          /\ Len(ret.confidence_scores) = Len(ret.predictions)
          /\ Len(ret.future_dates) = Len(ret.predictions)
    /\ \A k \in 1..Len(stages) :
          (stages[k][1] \in PipelineStages /\ stages[k][2] # "True") =>
              (k = Len(stages) /\ caller = "api")

C9_Witness ==
    /\ pc = "idle" /\ ret.op = "analyze_stock"
    /\ req.predict_days = MaxDays
    /\ Len(ret.predictions) = MaxDays
    /\ Len(stages) > 3

ZeroBars(answer) == answer[1] # "exception" /\ answer[2] = 0

\* C10: when the provider gives back a history of zero bars, get_stock_data
\* reports failure; analyze_stock then ends at once: no indicator column is
\* computed, and the training set and the model are not touched, and there is
\* no prediction.
C10_EmptySeriesStops ==
    [][\A answer \in ProviderAnswers :
          ZeroBars(answer) =>
              /\ GetStockData(answer) =>
                    (ret'.op = "get_stock_data" /\ ret'.outcome = "False")
              /\ AnalyzeGetStockData(answer) =>
                    /\ pc' = "idle"
                    /\ stages' = << <<"get_stock_data", "False">> >>
                    /\ ret'.op = "analyze_stock" /\ ret'.outcome = "None"
                    /\ ret'.predictions = <<>>
                    /\ ~HasColumn(data', "MA_5")
                    /\ features' = features
                    /\ targets' = targets
                    /\ model' = model]_vars

C10_Witness ==
    /\ pc = "idle" /\ ret.op = "analyze_stock"
    /\ stages = << <<"get_stock_data", "False">> >>
    /\ ~data.is_none
    /\ NumBars(data) = 0

\* C11: when the plots raise, analyze_stock still returns normally, without
\* an exception of its own, also when its fallback display is used; the
\* forecast was produced and reported before.
C11_PlotFailureContained ==
    (/\ pc = "idle" /\ ret.op = "analyze_stock"
     /\ Len(stages) > 0
     /\ stages[Len(stages)][1] = "plot"
     /\ stages[Len(stages)][2] # "shown") =>
        /\ ret.outcome = "None"
        /\ ret.reported
        /\ Len(ret.predictions) = req.predict_days

\* The training sets prepare_features builds from the loaded series
SetsOfLoadedSeries ==
    {prepare_features(data, NoFeatures, <<>>, lookback) : lookback \in Lookbacks}

\* C12: whenever predict_future runs its loop, the feature matrix it took its
\* window from and the model it asks are derived from the series now loaded:
\* the matrix is the one prepare_features builds from that series, and the
\* model is the one train_model fits to such a matrix.
C12_DerivedFromLoadedSeries ==
    pc = "loop" =>
        \A sets \in {SetsOfLoadedSeries} :
            /\ \E r \in sets : features.rows = r.features.rows
            /\ \E r \in sets :
                  /\ Len(r.features.rows) > 1
                  /\ model = FitOn(r.features, r.targets,
                                   TrainRows(Len(r.features.rows)))

\* lines 26-30: the columns the provider delivers
RawColumns == {"Open", "High", "Low", "Close", "Volume"}

\* the bars of a frame: their order and their raw values
PriceSeries(d) ==
    [index |-> d.index,
     col |-> [c \in RawColumns \cap DOMAIN d.col |-> d.col[c]]]

\* C13: a step of prepare_features, train_model or predict_future (called
\* directly or by analyze_stock) keeps every Open/High/Low/Close/Volume value,
\* the number of bars and their order, and keeps every column the frame had;
\* a step of predict_future also keeps self.features and self.model.
C13_SeriesReadOnly ==
    [][/\ \/ /\ PriceSeries(data') = PriceSeries(data)
             /\ data'.is_none = data.is_none
             /\ DOMAIN data.col \subseteq DOMAIN data'.col
          \/ ~( \/ /\ ret'.op = "prepare_features"
                   /\ \E lookback \in Lookbacks : PrepareFeatures(lookback)
                \/ TrainModel
                \/ AnalyzePrepareFeatures
                \/ AnalyzeTrainModel )
       /\ \/ /\ data' = data
             /\ features' = features
             /\ model' = model
          \/ ~( \/ \E days \in 0..MaxDays : PredictFuture(days)
                \/ \E predict_days \in 0..MaxDays :
                       AnalyzePredictFuture(predict_days)
                \/ PredictStep
                \/ PredictReturn )]_vars

\* a forecast was made from a prepared and trained series that is still the
\* one the provider delivered
C13_Witness ==
    /\ pc = "idle"
    /\ ret.op = "predict_future" /\ ret.outcome = "forecast"
    /\ Len(ret.predictions) = MaxDays
    /\ ~model.is_none
    /\ HasColumn(data, "Volatility")
    /\ PriceSeries(data) = PriceSeries(ProviderHistory("rising", 62))

\* C14: a prepare_features call that directly follows a prepare_features call
\* with the same lookback_days, on the series loaded then, leaves the derived
\* columns, the feature matrix and the targets as they were, and ends as the
\* first call did.
C14_PrepareTwice ==
    [][\A lookback \in Lookbacks :
          (/\ ret.op = "prepare_features"
           /\ lookback_days = lookback
           /\ ret'.op = "prepare_features"
           /\ PrepareFeatures(lookback)) =>
              /\ data' = data
              /\ features' = features
              /\ Len(features'.rows) = Len(features.rows)
              /\ targets' = targets
              /\ ret'.outcome = ret.outcome]_vars

\* the second of two such calls has ended, with a training set of several rows
C14_Witness ==
    /\ pc = "idle"
    /\ ret.op = "prepare_features" /\ ret.again
    /\ ret.outcome = "True"
    /\ HasColumn(data, "BB_Width")
    /\ Len(features.rows) > 1
    /\ Len(targets) = Len(features.rows)

FlatSeries == PriceSeries(ProviderHistory("flat", 40))

\* C16: on the 40-bar series with the constant close 100 and the default
\* lookback_days, train_model succeeds, and an analyze_stock call that loaded
\* the series ends with a forecast of predict_days steps.
C16_FlatSeriesForecast ==
    (/\ pc = "idle"
     /\ PriceSeries(data) = FlatSeries
     /\ lookback_days = DefaultLookback) =>
        /\ (ret.op = "train_model" /\ HasColumn(data, "RSI")) =>
               ret.outcome = "True"
        /\ (/\ ret.op = "analyze_stock"
            /\ Len(stages) > 0
            /\ stages[1] = <<"get_stock_data", "True">>) =>
               /\ \E k \in 1..Len(stages) : stages[k] = <<"train_model", "True">>
               /\ ret.outcome = "None"
               /\ Len(ret.predictions) = req.predict_days

\* C17: every training pair that prepare_features has built is made of the
\* window of lookback_days consecutive bars that ends at some bar and of the
\* close of the bar right after that one.
C17_TargetFollowsWindow ==
    (/\ pc = "idle" /\ ret.op = "prepare_features" /\ ret.outcome = "True") =>
        \A rows \in {Array([j \in 1..NumBars(data) |-> DayFields(data, j)])} :
            \A k \in 1..Len(features.rows) :
                \E last \in lookback_days..(NumBars(data) - 1) :
                    /\ features.rows[k] =
                           ConcatRange(rows, last - lookback_days + 1, last)
                    /\ targets[k] = data.col["Close"][last + 1]

\* C18: when predict_future enters its loop on a trained predictor,
\* current_features is the window of the lookback_days bars that end at the
\* last bar of the series, and last_real_data is that last bar.
C18_WindowEndsAtLastBar ==
    (pc = "loop" /\ loc.day = 0 /\ Trained) =>
        \A rows \in {Array([j \in 1..NumBars(data) |-> DayFields(data, j)])} :
            /\ loc.last_real_data = LastRow(data)
            /\ loc.current_features =
                   ConcatRange(rows, NumBars(data) - lookback_days + 1, NumBars(data))

\* C19: after a step of the forecast loop that is not the last one,
\* last_real_data holds, for each of the 19 fields, the value that the step
\* wrote for it into the last 19 positions of current_features.
C19_LastRowIsSyntheticRow ==
    (pc = "loop" /\ 0 < loc.day /\ loc.day < loc.days /\ Trained) =>
        \A c \in 1..features_per_day :
            loc.last_real_data[FeatureColumns[c]] =
                loc.current_features[Len(loc.current_features) - features_per_day + c]

\* synthetic rows in the window: one for each step made but the last of the call
SyntheticRows(l) == IF l.day < l.days THEN l.day ELSE l.days - 1

\* C20: throughout the forecast loop of a trained predictor, every synthetic
\* row in current_features has, as its volume, the volume of the last bar of
\* the series.
C20_VolumeCarriedForward ==
    (pc = "loop" /\ Trained) =>
        \A r \in 1..SyntheticRows(loc) :
            loc.current_features[Len(loc.current_features)
                                   - r * features_per_day + 5]
                = data.col["Volume"][NumBars(data)]

\* the k-th synthetic row of the window, the oldest first, as its 19 fields
SyntheticRow(l, k) ==
    SubSeq(l.current_features,
           Len(l.current_features) - (SyntheticRows(l) - k + 1) * features_per_day + 1,
           Len(l.current_features) - (SyntheticRows(l) - k) * features_per_day)

\* the row before the k-th synthetic row: the last bar of the series, or the
\* synthetic row written one step earlier
PrecedingRow(d, l, k) ==
    IF k = 1 THEN DayFields(d, NumBars(d)) ELSE SyntheticRow(l, k - 1)

\* position of a field among the 19 of a day
Position(c) == CHOOSE p \in 1..Len(FeatureColumns) : FeatureColumns[p] = c

\* the moving averages and their lengths
Averages == {<<"MA_5", 5>>, <<"MA_10", 10>>, <<"MA_20", 20>>, <<"MA_30", 30>>}

\* C21: throughout the forecast loop of a trained predictor, each moving
\* average MA_k of each synthetic row is (MA_k of the row before it * (k - 1)
\* + the point estimate of its step) / k, the row before the first synthetic
\* row being the last bar of the series.
C21_AveragesFromPrecedingRow ==
    (pc = "loop" /\ Trained) =>
        \A k \in 1..SyntheticRows(loc) :
            \A row \in {SyntheticRow(loc, k)}, prev \in {PrecedingRow(data, loc, k)} :
                \A ma \in Averages :
                    row[Position(ma[1])] =
                        Div(Add(Mul(prev[Position(ma[1])], Num(ma[2] - 1)),
                                loc.predictions[k]),
                            Num(ma[2]))

\* C22: throughout the forecast loop, every synthetic row has the point
\* estimate of its step as open and as close, the estimate times 1.01 as high
\* and the estimate times 0.99 as low.
C22_SyntheticPrices ==
    pc = "loop" =>
        \A k \in 1..SyntheticRows(loc) :
            \A row \in {SyntheticRow(loc, k)} :
                /\ row[Position("Open")] = loc.predictions[k]
                /\ row[Position("Close")] = loc.predictions[k]
                /\ row[Position("High")] = Mul(loc.predictions[k], Q(101, 100))
                /\ row[Position("Low")] = Mul(loc.predictions[k], Q(99, 100))

\* two synthetic rows are in the window, made from estimates that are not zero
C22_Witness ==
    /\ pc = "loop" /\ Trained
    /\ SyntheticRows(loc) = 2
    /\ \A k \in 1..2 : Lt(Zero, loc.predictions[k])
    /\ SyntheticRow(loc, 1)[Position("High")] # SyntheticRow(loc, 1)[Position("Low")]

\* lines 173-182: the fields a synthetic day takes over as they are
CarriedForward ==
    {"RSI", "MACD", "MACD_Signal", "MACD_Histogram",
     "BB_Upper", "BB_Lower", "BB_Width", "Volume_Change", "Volatility"}

\* C23: throughout the forecast loop, every synthetic row has the RSI, MACD,
\* MACD signal, MACD histogram, Bollinger upper, lower and width, volume change
\* and volatility of the last bar of the series.
C23_IndicatorsCarriedForward ==
    pc = "loop" =>
        \A k \in 1..SyntheticRows(loc) :
            \A row \in {SyntheticRow(loc, k)}, last \in {LastRow(data)} :
                \A c \in CarriedForward : row[Position(c)] = last[c]

\* two synthetic rows are in the window, after a last bar whose carried fields
\* differ from the fields next to them
C23_Witness ==
    /\ pc = "loop" /\ Trained
    /\ SyntheticRows(loc) = 2
    /\ LastRow(data)["RSI"] # LastRow(data)["MA_30"]
    /\ LastRow(data)["BB_Upper"] # LastRow(data)["BB_Lower"]
    /\ SyntheticRow(loc, 2)[Position("MA_30")] # LastRow(data)["MA_30"]

\* the close before the k-th synthetic row: the close of the last bar of the
\* series, or the point estimate of the step before
PreviousClose(d, l, k) ==
    IF k = 1 THEN d.col["Close"][NumBars(d)] ELSE l.predictions[k - 1]

\* C24: throughout the forecast loop, the price change of every synthetic row
\* is (point estimate of its step - previous close) / previous close, the
\* previous close being the close of the last bar for the first synthetic row
\* and the point estimate of the step before for every later one.
C24_PriceChange ==
    pc = "loop" =>
        \A k \in 1..SyntheticRows(loc) :
            \A previous \in {PreviousClose(data, loc, k)} :
                SyntheticRow(loc, k)[Position("Price_Change")] =
                    Div(Sub(loc.predictions[k], previous), previous)

\* two synthetic rows are in the window, the first estimate being another
\* value than the last close
C24_Witness ==
    /\ pc = "loop" /\ Trained
    /\ SyntheticRows(loc) = 2
    /\ loc.predictions[1] # data.col["Close"][NumBars(data)]
    /\ SyntheticRow(loc, 1)[Position("Price_Change")] # Zero
    /\ SyntheticRow(loc, 2)[Position("Price_Change")]
           # SyntheticRow(loc, 1)[Position("Price_Change")]

\* C25: when an analyze_stock call has ended and the series it loaded gave no
\* training row, its prepare_features stage did not report success and its
\* train_model stage was not run.
C25_NoRowsDetectedEarly ==
    (/\ pc = "idle" /\ ret.op = "analyze_stock"
     /\ \E k \in 1..Len(stages) : stages[k][1] = "prepare_features"
     /\ Len(features.rows) = 0) =>
        \A k \in 1..Len(stages) :
            /\ stages[k] # <<"prepare_features", "True">>
            /\ stages[k][1] # "train_model"

\* a pair without an undefined value
Defined(feature_set, target) ==
    /\ \A p \in 1..Len(feature_set) : ~IsNaN(feature_set[p])
    /\ ~IsNaN(target)

NoDecline(close, j) ==
    \A k \in (j - 13)..j : k > 1 => ~Lt(close[k], close[k - 1])

\* C27: in a frame with indicators, at every bar from the 14th on whose 14-bar
\* window holds no decline, the RSI is 100, also when the window holds no gain
\* either.
C27_RSISaturates ==
    HasColumn(data, "RSI") =>
        \A j \in 14..NumBars(data) :
            NoDecline(data.col["Close"], j) => data.col["RSI"][j] = Num(100)

(***************************************************************************)
(* prepare_features alone, lines 48-128, on two series that differ in one  *)
(* bar, so that what a value of the frame or of a window is computed from  *)
(* can be told from the two results.                                       *)
(***************************************************************************)
\* the frame d with other values in the bar at position at
ChangedBar(d, at, close) ==
    [d EXCEPT !.col = [c \in DOMAIN d.col |->
        [d.col[c] EXCEPT ![at] =
            CASE c = "High" -> Num(close + 1)
              [] c = "Low" -> Num(close - 1)
              [] c = "Volume" -> Num(2000)
              [] OTHER -> Num(close)]]]

\* the bars changed, and the closes put there
ChangedPositions(n) == {2, 15, 31, 33, n - 1, n}
ChangedCloses == {50, 90}

NoComparison ==
    [series |-> NoData, other |-> NoData, at |-> 0, prepared |-> FALSE,
     a |-> <<>>, b |-> <<>>]

CausalInit ==
    /\ data = NoData
    /\ lookback_days = DefaultLookback
    /\ features = NoFeatures
    /\ targets = <<>>
    /\ model = NoModel
    /\ pc = "idle"
    /\ caller = "api"
    /\ req = [predict_days |-> 0]
    /\ loc = NoLocals
    /\ ret = NoRet
    /\ stages = <<>>
    /\ diag = NoDiag
    /\ ncalls = 0
    /\ last_forecast = NoForecast
    /\ probe \in {[NoComparison EXCEPT
                      !.series = ProviderHistory(shape, n),
                      !.other = ChangedBar(ProviderHistory(shape, n), at, close),
                      !.at = at] :
                  shape \in {"flat", "rising", "zigzag"},
                  n \in {40},
                  at \in ChangedPositions(40),
                  close \in ChangedCloses}
                 \cup
                 {[NoComparison EXCEPT
                      !.series = ProviderHistory(shape, n),
                      !.other = ChangedBar(ProviderHistory(shape, n), at, close),
                      !.at = at] :
                  shape \in {"flat", "rising", "zigzag"},
                  n \in {MaxBars},
                  at \in ChangedPositions(MaxBars),
                  close \in ChangedCloses}

\* prepare_features on each of the two series
CausalPrepare ==
    /\ ~probe.prepared
    /\ probe' = [probe EXCEPT
                    !.prepared = TRUE,
                    !.a = prepare_features(probe.series, NoFeatures, <<>>,
                                           lookback_days),
                    !.b = prepare_features(probe.other, NoFeatures, <<>>,
                                           lookback_days)]
    /\ UNCHANGED <<self, pc, caller, req, loc, ret, stages, diag, ncalls,
                   last_forecast>>

CausalNext == CausalPrepare

CausalSpec == CausalInit /\ [][CausalNext]_vars

\* lines 57-86: the columns prepare_features adds
DerivedColumns == {FeatureColumns[p] : p \in 1..Len(FeatureColumns)} \ RawColumns

\* C28: of two series that differ in the bar at one position only, the frames
\* prepare_features makes have the same derived values at every earlier
\* position, and the candidate windows whose target day is that position or a
\* later one are the same.
C28_NoLookAhead ==
    probe.prepared =>
        /\ \A c \in DerivedColumns :
               \A j \in 1..(probe.at - 1) :
                   probe.a.data.col[c][j] = probe.b.data.col[c][j]
        /\ \A idx \in {CandidateIndices(probe.a.data, lookback_days)},
              fa \in {CandidateFeatures(probe.a.data, lookback_days)},
              fb \in {CandidateFeatures(probe.b.data, lookback_days)} :
               \A k \in 1..Len(idx) :
                   probe.at >= idx[k] + 2 => fa[k] = fb[k]

\* the change of a bar behind the warm-up shows in the derived values at its
\* position, and it is the target day of a candidate whose window is the same
\* for both series
C28_Witness ==
    /\ probe.prepared
    /\ probe.at > DefaultLookback + 1
    /\ probe.a.data.col["MA_30"][probe.at] # probe.b.data.col["MA_30"][probe.at]
    /\ probe.a.data.col["MA_30"][probe.at - 1] = probe.b.data.col["MA_30"][probe.at - 1]
    /\ ~IsNaN(probe.a.data.col["MA_30"][probe.at - 1])
    /\ \E k \in 1..Len(CandidateIndices(probe.a.data, lookback_days)) :
           /\ CandidateIndices(probe.a.data, lookback_days)[k] + 2 = probe.at
           /\ CandidateTargets(probe.a.data, lookback_days)[k]
                  # CandidateTargets(probe.b.data, lookback_days)[k]

\* lines 162-182: the value create_feature_from_prediction computes for the
\* field named c, from the prediction and the row called last_real_data
SynthesizedField(c, prediction, last) ==
    CASE c \in {"Open", "Close"} -> prediction
      [] c = "High" -> Mul(prediction, Q(101, 100))
      [] c = "Low" -> Mul(prediction, Q(99, 100))
      [] c = "Volume" -> last["Volume"]
      [] c = "MA_5" -> Div(Add(Mul(last["MA_5"], Num(4)), prediction), Num(5))
      [] c = "MA_10" -> Div(Add(Mul(last["MA_10"], Num(9)), prediction), Num(10))
      [] c = "MA_20" -> Div(Add(Mul(last["MA_20"], Num(19)), prediction), Num(20))
      [] c = "MA_30" -> Div(Add(Mul(last["MA_30"], Num(29)), prediction), Num(30))
      [] c = "Price_Change" -> Div(Sub(prediction, last["Close"]), last["Close"])
      [] OTHER -> last[c]

\* C29: the first synthetic row of a forecast holds, at each of its 19
\* positions, the value synthesized for the field that the per-day part of a
\* training window holds at that position.
C29_SameFieldOrder ==
    (pc = "loop" /\ SyntheticRows(loc) >= 1) =>
        \A row \in {SyntheticRow(loc, 1)}, last \in {LastRow(data)} :
            /\ Len(row) = Len(FeatureColumns)
            /\ \A p \in 1..Len(FeatureColumns) :
                   row[p] = SynthesizedField(FeatureColumns[p], loc.predictions[1], last)

\* a synthetic row is in the window whose fields, open and close apart, all
\* have different values, behind a real day laid out by prepare_features
C29_Witness ==
    /\ pc = "loop" /\ Trained
    /\ SyntheticRows(loc) >= 1
    /\ \A p, q \in 1..features_per_day :
           (p < q /\ <<p, q>> # <<1, 4>>) =>
               SyntheticRow(loc, 1)[p] # SyntheticRow(loc, 1)[q]
    /\ \A p \in 1..features_per_day :
           loc.current_features[p] =
               data.col[FeatureColumns[p]][NumBars(data) - 1 - lookback_days
                                             + SyntheticRows(loc)]

\* the held-out part of the split of the training set
HeldOut(f, t) ==
    [X |-> Array([k \in 1..NumTest(Len(f.rows)) |-> f.rows[TestRows(Len(f.rows))[k]]]),
     y |-> Array([k \in 1..NumTest(Len(f.rows)) |-> t[TestRows(Len(f.rows))[k]]])]

\* C30: after a train_model call that gave True, the values reported as MSE,
\* MAE and MAPE are the mean squared error, the mean absolute error and the
\* mean absolute percentage error of the model on the held-out part.
C30_DiagnosticsReported ==
    (/\ pc = "idle" /\ ret.op = "train_model" /\ ret.outcome = "True") =>
        \A held \in {HeldOut(features, targets)} :
            \A e \in {Errors(held.y,
                             Array([k \in 1..Len(held.X) |-> Predict(model, held.X[k])]))} :
                /\ diag.printed
                /\ diag.MSE = e.MSE
                /\ diag.MAE = e.MAE
                /\ diag.MAPE = e.MAPE

=============================================================================
